---- MODULE Spec2Model ----
(***************************************************************************)
(* Model of mod_auth/forms.py: the field validators of the authentication *)
(* forms, the validation chains the form classes declare, and the         *)
(* account-edit request that stores a validated email.                     *)
(*                                                                         *)
(* Strings are sequences of one-character strings.  An error message is a  *)
(* sequence of string parts, so that the numbers formatted into the        *)
(* length-range message are part of the message.                           *)
(***************************************************************************)
EXTENDS Integers, Sequences, FiniteSets, TLC

\* ---------------------------------------------------------------- bounds
MaxLen == 2

\* ---------------------------------------------------------------- inputs
Chars == {"a", "b"}

\* Submitted password values: the empty string and every string of up to
\* MaxLen characters whose tail is all "a" (two values of every length).
Passwords ==
    {<< >>} \cup {[i \in 1..k |-> IF i = 1 THEN c ELSE "a"] : k \in 1..MaxLen, c \in Chars}

\* Submitted current passwords: empty, the stored one, a wrong one.
CurrentPasswords == {<< >>, <<"a">>, <<"b">>}

Names == {<< >>, <<"a">>}

LocalParts == <<"a", "b", "c", "d", "e", "f">>

Addr(i) == <<LocalParts[i], "@", "x">>

\* The users of the store, and one address more than there are users.
UserIds == {1, 2}

Addresses == {Addr(i) : i \in UserIds} \cup {Addr(Cardinality(UserIds) + 1)}

\* Submitted email values: empty, one without an "@", and the addresses.
Emails == {<< >>, <<"a">>} \cup Addresses

\* form.user is None
None == 0

\* ---------------------------------------------------------------- messages
MsgNameRequired == <<"Name is not filled in.">>
MsgPwdRequired == <<"Password is not filled in.">>
MsgRepeatRequired == <<"Repeated password is not filled in.">>
MsgCurRequired == <<"current password cannot be empty">>
MsgEmailRequired == <<"email address is not filled in">>
MsgEmailFormat == <<"entered value is not a valid email address">>
MsgEmpty == <<"new password cannot be empty">>
MsgInUse == <<"This address is already in use">>
MsgNoUser == <<"User instance not passed to form validation">>
MsgInvalid == <<"Invalid password">>
MsgMatch == <<"The password needs to match the new password">>

Digits == <<"0", "1", "2", "3", "4", "5", "6", "7", "8", "9">>

\* str(n) of the f-string, for the numbers the model reaches
RECURSIVE NumStr(_)
NumStr(n) == IF n < 10 THEN Digits[n + 1] ELSE NumStr(n \div 10) \o Digits[(n % 10) + 1]

MsgRange(min_pwd_len, max_pwd_len, pass_size) ==
    <<"Password needs to be between ", NumStr(min_pwd_len), " and ", NumStr(max_pwd_len),
      " characters long (you entered ", NumStr(pass_size), ")">>

\* ---------------------------------------------------------------- outcomes
\* What one validator call does: return, raise ValidationError, raise
\* StopValidation, or raise another exception; and the external calls made.
Ok(calls) == [kind |-> "ok", msg |-> << >>, calls |-> calls]
Error(m, calls) == [kind |-> "error", msg |-> m, calls |-> calls]
Stop(m) == [kind |-> "stop", msg |-> m, calls |-> {}]
Raise(e, calls) == [kind |-> "raise", msg |-> <<e>>, calls |-> calls]

VARIABLES config, users, pc, form, errors, raised, calls, outcome

vars == <<config, users, pc, form, errors, raised, calls, outcome>>


\* ---------------------------------------------------------------- external
\* wtforms DataRequired(message): StopValidation when the data is empty.
DataRequired(data, message) ==
    IF Len(data) = 0 THEN Stop(message) ELSE Ok({})

\* wtforms Email(message): a local part, one "@", a domain part.
IsEmailFormat(data) ==
    \E i \in 2..(Len(data) - 1) :
        /\ data[i] = "@"
        /\ \A j \in 1..Len(data) : data[j] = "@" => j = i

Email(data, message) ==
    IF IsEmailFormat(data) THEN Ok({}) ELSE Error(message, {})

\* User.is_password_valid(candidate) of the stored user
is_password_valid(user, candidate) == user.password = candidate

\* The results User.query.filter(User.email == data).first() can give:
\* one of the matching users, or None when there is none.
FirstByEmail(store, data) ==
    LET matches == {u \in UserIds : store[u].email = data}
    IN  IF matches = {} THEN {None} ELSE matches

\* ---------------------------------------------------------------- validators
\* valid_password without the upper limit
valid_password_NoMaxCheck(cfg, data) ==
    LET pass_size == Len(data)
    IN  IF pass_size = 0
        THEN Error(MsgEmpty, {})
        ELSE IF pass_size < cfg.MIN_PWD_LEN
             THEN Error(MsgRange(cfg.MIN_PWD_LEN, cfg.MAX_PWD_LEN, pass_size), {})
             ELSE Ok({})

\* valid_password with the range test before the emptiness test
valid_password_RangeFirst(cfg, data) ==
    LET pass_size == Len(data)
    IN  IF pass_size < cfg.MIN_PWD_LEN \/ pass_size > cfg.MAX_PWD_LEN
        THEN Error(MsgRange(cfg.MIN_PWD_LEN, cfg.MAX_PWD_LEN, pass_size), {})
        ELSE IF pass_size = 0 THEN Error(MsgEmpty, {}) ELSE Ok({})

valid_password(cfg, data) ==
    LET min_pwd_len == cfg.MIN_PWD_LEN
        max_pwd_len == cfg.MAX_PWD_LEN
        pass_size == Len(data)
    IN  IF pass_size = 0
        THEN Error(MsgEmpty, {})
        ELSE IF pass_size < min_pwd_len \/ pass_size > max_pwd_len
             THEN Error(MsgRange(min_pwd_len, max_pwd_len, pass_size), {})
             ELSE Ok({})

\* email_not_in_use with the id test inverted
email_not_in_use_WrongIdTest(has_user_field, form_user, data, first) ==
    IF has_user_field /\ form_user = None
    THEN Raise("AttributeError", {})
    ELSE LET user_id == IF ~has_user_field THEN -1 ELSE form_user
         IN  IF first # None /\ first = user_id /\ Len(data) > 0
             THEN Error(MsgInUse, {"User.query"})
             ELSE Ok({"User.query"})

\* first is the user the query returned (None for no row)
email_not_in_use(has_user_field, form_user, data, first) ==
    IF has_user_field /\ form_user = None
    THEN Raise("AttributeError", {})
    ELSE LET user_id == IF ~has_user_field THEN -1 ELSE form_user
         IN  IF first # None /\ first # user_id /\ Len(data) > 0
             THEN Error(MsgInUse, {"User.query"})
             ELSE Ok({"User.query"})

CompleteSignupForm_validate_password_repeat(password, data) ==
    IF data # password THEN Error(MsgMatch, {}) ELSE Ok({})

\* validate_password_repeat comparing the lengths only
CompleteResetForm_validate_password_repeat_ByLength(password, data) ==
    IF Len(data) # Len(password) THEN Error(MsgMatch, {}) ELSE Ok({})

CompleteResetForm_validate_password_repeat(password, data) ==
    IF data # password THEN Error(MsgMatch, {}) ELSE Ok({})

\* validate_current_password without the test for a missing user
validate_current_password_NoUserCheck(store, form_user, data) ==
    IF form_user = None
    THEN Raise("AttributeError", {})
    ELSE IF ~is_password_valid(store[form_user], data)
         THEN Error(MsgInvalid, {"is_password_valid"})
         ELSE Ok({"is_password_valid"})

validate_current_password(store, form_user, data) ==
    IF form_user = None
    THEN Error(MsgNoUser, {})
    ELSE IF ~is_password_valid(store[form_user], data)
         THEN Error(MsgInvalid, {"is_password_valid"})
         ELSE Ok({"is_password_valid"})

\* validate_new_password without the early return
validate_new_password_NoSkip(cfg, new_password_repeat, data) ==
    valid_password(cfg, data)

\* validate_new_password returning early when either field is empty
validate_new_password_SkipOnEither(cfg, new_password_repeat, data) ==
    IF Len(data) = 0 \/ Len(new_password_repeat) = 0
    THEN Ok({})
    ELSE valid_password(cfg, data)

validate_new_password(cfg, new_password_repeat, data) ==
    IF Len(data) = 0 /\ Len(new_password_repeat) = 0
    THEN Ok({})
    ELSE valid_password(cfg, data)

\* form.email is the email field of the class, never None
FormEmailIsNotNone == TRUE

\* validate_new_password_repeat comparing the field with itself
validate_new_password_repeat_SelfCompare(new_password, data) ==
    IF FormEmailIsNotNone /\ Len(data) = 0 /\ Len(new_password) = 0
    THEN Ok({})
    ELSE IF data # data THEN Error(MsgMatch, {}) ELSE Ok({})

validate_new_password_repeat(new_password, data) ==
    IF FormEmailIsNotNone /\ Len(data) = 0 /\ Len(new_password) = 0
    THEN Ok({})
    ELSE IF data # new_password THEN Error(MsgMatch, {}) ELSE Ok({})

\* ---------------------------------------------------------------- chains
\* Field.validate: run the validators in order; ValidationError appends its
\* message and goes on, StopValidation appends and ends the chain, any other
\* exception leaves the chain (and the form's validate) at once.
\* The validators of a chain that are called: all of them up to and including
\* the first that raises StopValidation or an exception other than
\* ValidationError.
Ran(outs) ==
    LET ends == {i \in 1..Len(outs) : outs[i].kind \in {"stop", "raise"}}
        last == IF ends = {} THEN Len(outs) ELSE CHOOSE i \in ends : \A j \in ends : i <= j
    IN  SubSeq(outs, 1, last)

FieldValidate(outs) ==
    LET ran == Ran(outs)
        failed == SelectSeq(ran, LAMBDA o : o.kind \in {"error", "stop"})
    IN  [errors |-> [j \in 1..Len(failed) |-> failed[j].msg],
         raised |-> IF ran # << >> /\ ran[Len(ran)].kind = "raise"
                    THEN ran[Len(ran)].msg[1] ELSE "none",
         calls |-> UNION {ran[j].calls : j \in 1..Len(ran)}]

\* BaseForm.validate: the fields in declaration order; a field after one that
\* raised is never validated and keeps an empty error list.
Validate(fields) ==
    LET res == [i \in 1..Len(fields) |-> FieldValidate(fields[i])]
        aborts == {i \in 1..Len(fields) : res[i].raised # "none"}
        last == IF aborts = {} THEN Len(fields) ELSE CHOOSE i \in aborts : \A j \in aborts : i <= j
    IN  [errors |-> [i \in 1..Len(fields) |-> IF i <= last THEN res[i].errors ELSE << >>],
         raised |-> IF aborts = {} THEN "none" ELSE res[last].raised,
         calls |-> UNION {res[i].calls : i \in 1..last}]

\* ---------------------------------------------------------------- state
NoForm == [kind |-> "none"]
NoFieldErrors == [f \in {} |-> << >>]
NoOutcome == [kind |-> "none", msg |-> << >>, calls |-> {}]

\* run.config holds any pair of lengths; user i of the store starts with
\* address i and the stored password "a".
Init ==
    /\ config \in [MIN_PWD_LEN : 0..MaxLen, MAX_PWD_LEN : 0..MaxLen]
    /\ users = [u \in UserIds |-> [email |-> Addr(u), password |-> <<"a">>]]
    /\ pc = "idle"
    /\ form = NoForm
    /\ errors = NoFieldErrors
    /\ raised = "none"
    /\ calls = {}
    /\ outcome = NoOutcome

\* ---------------------------------------------------------------- forms
CompleteSignupFields(f) ==
    << <<DataRequired(f.name, MsgNameRequired)>>,
       <<DataRequired(f.password, MsgPwdRequired), valid_password(config, f.password)>>,
       <<DataRequired(f.password_repeat, MsgRepeatRequired),
         CompleteSignupForm_validate_password_repeat(f.password, f.password_repeat)>> >>

CompleteResetFields(f) ==
    << <<DataRequired(f.password, MsgPwdRequired), valid_password(config, f.password)>>,
       <<DataRequired(f.password_repeat, MsgRepeatRequired),
         CompleteResetForm_validate_password_repeat(f.password, f.password_repeat)>> >>

AccountFields(f, first) ==
    << <<DataRequired(f.current_password, MsgCurRequired),
         validate_current_password(users, f.user, f.current_password)>>,
       <<validate_new_password(config, f.new_password_repeat, f.new_password)>>,
       <<validate_new_password_repeat(f.new_password, f.new_password_repeat)>>,
       <<DataRequired(f.name, MsgNameRequired)>>,
       <<DataRequired(f.email, MsgEmailRequired),
         Email(f.email, MsgEmailFormat),
         email_not_in_use(TRUE, f.user, f.email, first)>> >>

\* The handler's write of the validated email to the form's user.
WriteEmail(store, user, email) == [store EXCEPT ![user].email = email]

\* form.validate() returned True
Passed(r) == r.raised = "none" /\ \A i \in 1..Len(r.errors) : r.errors[i] = << >>

\* A request that validates a CompleteSignupForm.
CompleteSignupRequest ==
    /\ pc = "idle"
    /\ \E name \in Names, password \in Passwords, password_repeat \in Passwords :
       LET f == [kind |-> "CompleteSignup", name |-> name, password |-> password,
                 password_repeat |-> password_repeat]
       IN  \E r \in {Validate(CompleteSignupFields(f))} :
        /\ pc' = "done"
        /\ form' = f
        /\ errors' = [name |-> r.errors[1], password |-> r.errors[2],
                      password_repeat |-> r.errors[3]]
        /\ raised' = r.raised
        /\ calls' = r.calls
        /\ UNCHANGED <<config, users, outcome>>

\* A request that validates a CompleteResetForm.
CompleteResetRequest ==
    /\ pc = "idle"
    /\ \E password \in Passwords, password_repeat \in Passwords :
       LET f == [kind |-> "CompleteReset", password |-> password,
                 password_repeat |-> password_repeat]
       IN  \E r \in {Validate(CompleteResetFields(f))} :
        /\ pc' = "done"
        /\ form' = f
        /\ errors' = [password |-> r.errors[1], password_repeat |-> r.errors[2]]
        /\ raised' = r.raised
        /\ calls' = r.calls
        /\ UNCHANGED <<config, users, outcome>>

\* An account-edit request: AccountForm(formdata, obj=user) is validated and
\* the submitted email is written to the form's user if validation passed.
AccountRequest ==
    /\ pc = "idle"
    /\ \E user \in UserIds \cup {None}, current_password \in CurrentPasswords,
          new_password \in Passwords, new_password_repeat \in Passwords,
          name \in Names, email \in Emails :
       \E first \in FirstByEmail(users, email) :
        LET f == [kind |-> "Account", user |-> user,
                  current_password |-> current_password,
                  new_password |-> new_password,
                  new_password_repeat |-> new_password_repeat,
                  name |-> name, email |-> email]
        IN  \E r \in {Validate(AccountFields(f, first))} :
            /\ pc' = "done"
            /\ form' = f
            /\ errors' = [current_password |-> r.errors[1], new_password |-> r.errors[2],
                          new_password_repeat |-> r.errors[3], name |-> r.errors[4],
                          email |-> r.errors[5]]
            /\ raised' = r.raised
            /\ calls' = r.calls
            /\ users' = IF Passed(r) THEN WriteEmail(users, user, email) ELSE users
            /\ UNCHANGED <<config, outcome>>

\* The request ends and its form is discarded.
EndRequest ==
    /\ pc = "done"
    /\ pc' = "idle"
    /\ form' = NoForm
    /\ errors' = NoFieldErrors
    /\ raised' = "none"
    /\ calls' = {}
    /\ outcome' = NoOutcome
    /\ UNCHANGED <<config, users>>

Next ==
    \/ CompleteSignupRequest
    \/ CompleteResetRequest
    \/ AccountRequest
    \/ EndRequest

Spec == Init /\ [][Next]_vars

\* ---------------------------------------------------------------- direct calls
\* Each validator called on its own with a form that holds only what the
\* validator reads: form.user, the other field it compares with, field.data.
Call(validator, has_user_field, user, other, data, out) ==
    /\ pc' = "done"
    /\ form' = [kind |-> "call", validator |-> validator, has_user_field |-> has_user_field,
                user |-> user, other |-> other, data |-> data]
    /\ outcome' = out
    /\ UNCHANGED <<config, users, errors, raised, calls>>

CallValidPassword ==
    /\ pc = "idle"
    /\ \E data \in Passwords :
          Call("valid_password", FALSE, None, << >>, data, valid_password(config, data))

CallEmailNotInUse ==
    /\ pc = "idle"
    /\ \E has_user_field \in BOOLEAN, user \in UserIds \cup {None}, data \in Emails :
          \E first \in FirstByEmail(users, data) :
              Call("email_not_in_use", has_user_field, user, << >>, data,
                   email_not_in_use(has_user_field, user, data, first))

CallSignupValidatePasswordRepeat ==
    /\ pc = "idle"
    /\ \E password \in Passwords, data \in Passwords :
          Call("CompleteSignupForm.validate_password_repeat", FALSE, None, password, data,
               CompleteSignupForm_validate_password_repeat(password, data))

CallResetValidatePasswordRepeat ==
    /\ pc = "idle"
    /\ \E password \in Passwords, data \in Passwords :
          Call("CompleteResetForm.validate_password_repeat", FALSE, None, password, data,
               CompleteResetForm_validate_password_repeat(password, data))

CallValidateCurrentPassword ==
    /\ pc = "idle"
    /\ \E user \in UserIds \cup {None}, data \in CurrentPasswords :
          Call("validate_current_password", FALSE, user, << >>, data,
               validate_current_password(users, user, data))

CallValidateNewPassword ==
    /\ pc = "idle"
    /\ \E new_password_repeat \in Passwords, data \in Passwords :
          Call("validate_new_password", FALSE, None, new_password_repeat, data,
               validate_new_password(config, new_password_repeat, data))

CallValidateNewPasswordRepeat ==
    /\ pc = "idle"
    /\ \E new_password \in Passwords, data \in Passwords :
          Call("validate_new_password_repeat", FALSE, None, new_password, data,
               validate_new_password_repeat(new_password, data))

NextCall ==
    \/ CallValidPassword
    \/ CallEmailNotInUse
    \/ CallSignupValidatePasswordRepeat
    \/ CallResetValidatePasswordRepeat
    \/ CallValidateCurrentPassword
    \/ CallValidateNewPassword
    \/ CallValidateNewPasswordRepeat
    \/ EndRequest

SpecCall == Init /\ [][NextCall]_vars

\* ---------------------------------------------------------------- properties
Called(validator) == pc = "done" /\ form.kind = "call" /\ form.validator = validator

OutOfRange(data) == Len(data) < config.MIN_PWD_LEN \/ Len(data) > config.MAX_PWD_LEN

RangeError(data) == Error(MsgRange(config.MIN_PWD_LEN, config.MAX_PWD_LEN, Len(data)), {})

\* C1 as stated: valid_password called on a password shorter than MIN_PWD_LEN
\* or longer than MAX_PWD_LEN raises the length-range message.
C1_OutOfRangeGivesRangeMessage ==
    Called("valid_password") /\ OutOfRange(form.data) => outcome = RangeError(form.data)

\* C1 amended: valid_password called on a non-empty password shorter than
\* MIN_PWD_LEN or longer than MAX_PWD_LEN raises the length-range message
\* that names MIN_PWD_LEN, MAX_PWD_LEN and the length entered.
C1_NonEmptyOutOfRangeGivesRangeMessage ==
    Called("valid_password") /\ Len(form.data) > 0 /\ OutOfRange(form.data)
        => outcome = RangeError(form.data)

C1_Witness ==
    /\ Called("valid_password")
    /\ Len(form.data) > config.MAX_PWD_LEN
    /\ config.MIN_PWD_LEN <= config.MAX_PWD_LEN
    /\ outcome.kind = "error"

\* C2: valid_password called on the empty password raises the empty-password
\* message, whatever MIN_PWD_LEN and MAX_PWD_LEN are.
C2_EmptyGivesEmptyMessage ==
    Called("valid_password") /\ Len(form.data) = 0 => outcome = Error(MsgEmpty, {})

C2_Witness ==
    /\ Called("valid_password")
    /\ Len(form.data) = 0
    /\ config.MIN_PWD_LEN > 0
    /\ outcome.msg = MsgEmpty

\* C3: validate_password_repeat of CompleteSignupForm and of CompleteResetForm
\* raises the mismatch message when the two values differ and returns when
\* they are equal, whatever the configuration and the store.
C3_RepeatFailsIffDifferent ==
    Called("CompleteSignupForm.validate_password_repeat")
    \/ Called("CompleteResetForm.validate_password_repeat")
        => outcome = IF form.data # form.other THEN Error(MsgMatch, {}) ELSE Ok({})

C3_Witness ==
    /\ Called("CompleteResetForm.validate_password_repeat")
    /\ Len(form.data) = Len(form.other)
    /\ form.data # form.other
    /\ outcome.kind = "error"

Submitted(kind) == pc = "done" /\ form.kind = kind

\* What the current_password field reports for a submission, read off the
\* submitted value, the form's user and the stored password.
CurrentPasswordReport ==
    IF Len(form.current_password) = 0 THEN <<MsgCurRequired>>
    ELSE IF form.user = None THEN <<MsgNoUser>>
    ELSE IF users[form.user].password # form.current_password THEN <<MsgInvalid>>
    ELSE << >>

\* C4: an AccountForm submission with new_password and new_password_repeat
\* both empty gets no error on either field, and the current_password field
\* still reports its own result, passing or failing.
C4_BothEmptySkipsNewPasswordChecks ==
    Submitted("Account") /\ Len(form.new_password) = 0 /\ Len(form.new_password_repeat) = 0
        => /\ errors.new_password = << >>
           /\ errors.new_password_repeat = << >>
           /\ errors.current_password = CurrentPasswordReport

C4_Witness ==
    /\ Submitted("Account")
    /\ Len(form.new_password) = 0
    /\ Len(form.new_password_repeat) = 0
    /\ config.MIN_PWD_LEN > 0
    /\ errors.current_password = <<MsgInvalid>>
    /\ errors.new_password = << >>

\* C5 as stated: email_not_in_use(True) called with a non-empty email raises
\* the in-use message when a user other than the form's user has that email,
\* returns when the form's user is the only one that has it, and for an
\* empty email always returns.
C5_EmailInUseByOtherUserOnly ==
    Called("email_not_in_use") /\ form.has_user_field
        => LET holders == {u \in UserIds : users[u].email = form.data}
           IN  /\ Len(form.data) > 0 /\ holders \ {form.user} # {}
                   => outcome.kind = "error" /\ outcome.msg = MsgInUse
               /\ Len(form.data) > 0 /\ holders = {form.user} => outcome.kind = "ok"
               /\ Len(form.data) = 0 => outcome.kind = "ok"

\* C6: validate_current_password raises the no-user message, without calling
\* is_password_valid, when the form has no user; raises 'Invalid password'
\* when the form has a user whose stored password the submitted one does not
\* verify against; and returns exactly when there is a user and it verifies.
C6_CurrentPasswordOutcome ==
    Called("validate_current_password")
        => outcome = IF form.user = None THEN Error(MsgNoUser, {})
                     ELSE IF users[form.user].password # form.data
                          THEN Error(MsgInvalid, {"is_password_valid"})
                          ELSE Ok({"is_password_valid"})

C6_Witness ==
    /\ Called("validate_current_password")
    /\ form.user = None
    /\ outcome.msg = MsgNoUser
    /\ outcome.calls = {}

\* C7 as stated: validating a form never ends in an exception other than a
\* validation error attached to a field.
C7_OnlyValidationErrors ==
    pc = "done" /\ form.kind \in {"CompleteSignup", "CompleteReset", "Account"}
        => raised = "none"

\* C8: for an AccountForm submission with new_password or new_password_repeat
\* non-empty, new_password reports the empty-password message when it is empty,
\* the length-range message when its length is outside
\* [MIN_PWD_LEN, MAX_PWD_LEN] and nothing otherwise, and new_password_repeat
\* reports the mismatch message exactly when it differs from new_password.
C8_NewPasswordStandardRules ==
    Submitted("Account") /\ (Len(form.new_password) > 0 \/ Len(form.new_password_repeat) > 0)
        => /\ errors.new_password =
                  IF Len(form.new_password) = 0 THEN <<MsgEmpty>>
                  ELSE IF OutOfRange(form.new_password)
                       THEN <<RangeError(form.new_password).msg>>
                       ELSE << >>
           /\ errors.new_password_repeat =
                  IF form.new_password_repeat # form.new_password THEN <<MsgMatch>> ELSE << >>

C8_Witness ==
    /\ Submitted("Account")
    /\ Len(form.new_password) = 0
    /\ Len(form.new_password_repeat) > 0
    /\ errors.new_password = <<MsgEmpty>>
    /\ errors.new_password_repeat = <<MsgMatch>>

\* form.validate() returned True for the submitted AccountForm
AccountValidated ==
    /\ Submitted("Account")
    /\ raised = "none"
    /\ \A f \in DOMAIN errors : errors[f] = << >>

Acceptable(password, repeat) ==
    /\ Len(password) > 0
    /\ Len(password) >= config.MIN_PWD_LEN
    /\ Len(password) <= config.MAX_PWD_LEN
    /\ password = repeat

\* C9: a password accepted by a form (CompleteSignupForm or CompleteResetForm
\* with no error on password and password_repeat, AccountForm validated with
\* a non-empty new_password) is non-empty, has a length within
\* [MIN_PWD_LEN, MAX_PWD_LEN] and equals its repeat field.
C9_AcceptedPasswordIsAcceptable ==
    /\ (Submitted("CompleteSignup") \/ Submitted("CompleteReset"))
       /\ errors.password = << >> /\ errors.password_repeat = << >>
           => Acceptable(form.password, form.password_repeat)
    /\ AccountValidated /\ Len(form.new_password) > 0
           => Acceptable(form.new_password, form.new_password_repeat)

C9_Witness ==
    /\ AccountValidated
    /\ Len(form.new_password) = MaxLen
    /\ form.new_password[1] = "b"

\* C10: the emails of the users of the store are pairwise distinct.
C10_EmailsPairwiseDistinct ==
    \A u, v \in UserIds : u # v => users[u].email # users[v].email

C10_Witness ==
    /\ AccountValidated
    /\ users[form.user].email = form.email
    /\ form.email # Addr(form.user)
    /\ \E v \in UserIds : v # form.user /\ users[v].email = Addr(form.user)
====
